---------------------------- MODULE Spec2Model ----------------------------
(***************************************************************************)
(* Model of the graph-query core of ATS_MCP (src/graph_functions.py):      *)
(* name resolution, the adjacency builder, the BFS shortest-path search,   *)
(* the neighbour query and the all-paths enumeration; and of the two       *)
(* adapters over it, the tool handler of src/mcp_server.py and the routes  *)
(* of src/api_server.py.                                                   *)
(*                                                                         *)
(* A Python str is a sequence of one-character strings, so that strip,     *)
(* lower, the regular expressions and startswith are computed character by *)
(* character.  Python's None is the empty option <<>> and a value v that   *)
(* may be None is carried as <<v>>.                                        *)
(***************************************************************************)
EXTENDS Integers, Sequences, FiniteSets, TLC

VARIABLES
    components,       \* graph_data["components"]: sequence of [id, instance_name]
    connections,      \* graph_data["connections"]: sequence of [component, wire]
    pc,               \* "idle" | "bfs" (inside the while loop of find_path_bfs) | "done"
                      \* | "responded" (an adapter has answered)
    op,               \* the core function or adapter handler running or last returned
    args,             \* its arguments (the graph apart)
    result,           \* its return value, once pc = "done"
    start_component,  \* find_path_bfs: the start endpoint after lines 138-143
    end_component,    \* find_path_bfs: the end endpoint after lines 145-150
    adjacency,        \* find_path_bfs: the adjacency map built at line 155
    queue,            \* find_path_bfs: deque of <<node, path>>
    visited,          \* find_path_bfs: the visited set
    current,          \* find_path_bfs: <<node, path>> popped at line 161
    neighbors         \* find_path_bfs: the neighbours of current still to iterate

vars == <<components, connections, pc, op, args, result, start_component,
          end_component, adjacency, queue, visited, current, neighbors>>

(***************************************************************************)
(* Bounds of the model.                                                    *)
(***************************************************************************)
MaxComps == 3     \* components of a graph queried for paths and neighbours
MaxConns == 4     \* entries of its connections list
MaxNamed == 2     \* components of a graph used to resolve names
MaxIndex == 2     \* largest trailing index of a generated reference
MaxClique == 6    \* components on the one wire of a graph searched for all paths
MaxChain == 15    \* components of the chain that hangs from them

(***************************************************************************)
(* Strings.                                                                *)
(***************************************************************************)
None == << >>
Some(v) == << v >>

UpperLetters == <<"A","B","C","D","E","F","G","H","I","J","K","L","M",
                  "N","O","P","Q","R","S","T","U","V","W","X","Y","Z">>
LowerLetters == <<"a","b","c","d","e","f","g","h","i","j","k","l","m",
                  "n","o","p","q","r","s","t","u","v","w","x","y","z">>
Digits == <<"0","1","2","3","4","5","6","7","8","9">>

IsSpace(c) == c \in {" ", "\t", "\n", "\r", "\f"}
IsDigit(c) == \E i \in 1..Len(Digits) : Digits[i] = c

lower_char(c) ==
    IF \E i \in 1..26 : UpperLetters[i] = c
    THEN LowerLetters[CHOOSE i \in 1..26 : UpperLetters[i] = c]
    ELSE c

\* str.lower()
lower(s) == [i \in 1..Len(s) |-> lower_char(s[i])]

\* str.strip(): leading and trailing whitespace removed
strip(s) ==
    IF \A i \in 1..Len(s) : IsSpace(s[i]) THEN << >>
    ELSE LET first == CHOOSE i \in 1..Len(s) :
                          /\ ~IsSpace(s[i])
                          /\ \A j \in 1..(i-1) : IsSpace(s[j])
             last  == CHOOSE i \in 1..Len(s) :
                          /\ ~IsSpace(s[i])
                          /\ \A j \in (i+1)..Len(s) : IsSpace(s[j])
         IN SubSeq(s, first, last)

\* str.startswith(prefix)
startswith(s, prefix) ==
    /\ Len(prefix) <= Len(s)
    /\ SubSeq(s, 1, Len(prefix)) = prefix

\* re.sub(r"[\s\-]+", "_", s): every maximal run of whitespace and hyphens
\* becomes one underscore
IsSepChar(c) == IsSpace(c) \/ c = "-"

RECURSIVE sub_runs(_, _)
sub_runs(s, i) ==
    IF i > Len(s) THEN << >>
    ELSE IF IsSepChar(s[i])
         THEN (IF i > 1 /\ IsSepChar(s[i-1]) THEN << >> ELSE << "_" >>)
              \o sub_runs(s, i + 1)
         ELSE << s[i] >> \o sub_runs(s, i + 1)

\* _norm (lines 17-22): trim, lowercase, runs of whitespace/hyphens to "_"
_norm(s) == sub_runs(lower(strip(s)), 1)

\* The match of r"(?:\s|_)(\d+)$" in s: the maximal run of digits that ends
\* the string, when a whitespace or an underscore stands right before it.
\* digits_from(s) is where that run starts (Len(s) + 1 when s ends with no
\* digit).
digits_from(s) ==
    CHOOSE k \in 1..(Len(s) + 1) :
        /\ \A j \in k..Len(s) : IsDigit(s[j])
        /\ k = 1 \/ ~IsDigit(s[k-1])

has_index(s) ==
    LET k == digits_from(s)
    IN /\ k <= Len(s)
       /\ k >= 2
       /\ (s[k-1] = "_" \/ IsSpace(s[k-1]))

\* m.group(1)
index_of(s) == SubSeq(s, digits_from(s), Len(s))

\* re.sub(r"(?:\s|_)\d+$", "", s).strip()
base_of(s) ==
    IF has_index(s) THEN strip(SubSeq(s, 1, digits_from(s) - 2)) ELSE strip(s)

(***************************************************************************)
(* Name resolution (lines 7-80).                                           *)
(***************************************************************************)
s_comp_ == <<"c","o","m","p","_">>

\* COMPONENT_ALIASES, as <<key, value>> pairs
COMPONENT_ALIASES ==
    { <<<<"v","a","l","v","e">>,
        <<"B","a","l","l","_","V","a","l","v","e">>>>,
      <<<<"b","a","l","l","_","v","a","l","v","e">>,
        <<"B","a","l","l","_","V","a","l","v","e">>>>,
      <<<<"b","o","i","l","e","r">>,
        <<"B","O","I","L","E","R">>>>,
      <<<<"p","u","m","p">>,
        <<"p","u","m","p">>>>,
      <<<<"3","_","w","a","y","_","v","a","l","v","e">>,
        <<"3","_","W","a","y","_","B","a","l","l","_","V","a","l","v","e","_","T">>>>,
      <<<<"t","h","r","e","e","_","w","a","y","_","v","a","l","v","e">>,
        <<"3","_","W","a","y","_","B","a","l","l","_","V","a","l","v","e","_","T">>>> }

\* canonical = COMPONENT_ALIASES.get(base); if canonical is None: canonical = base
canonical_of(base) ==
    IF \E a \in COMPONENT_ALIASES : a[1] = base
    THEN (CHOOSE a \in COMPONENT_ALIASES : a[1] = base)[2]
    ELSE base

\* for comp in components: if _norm(instance_name) == wanted: return id
\* (the loops of lines 46-48 and 65-67); None when the loop falls through
first_named(wanted, graph_data) ==
    LET comps == graph_data.components
        hits  == {i \in 1..Len(comps) : _norm(comps[i].instance_name) = wanted}
    IN IF hits = {} THEN None
       ELSE Some(comps[CHOOSE i \in hits : \A j \in hits : i <= j].id)

\* matches = [comp for comp in components if _norm(name).startswith(prefix)]
prefix_matches(prefix, graph_data) ==
    SelectSeq(graph_data.components,
              LAMBDA comp : startswith(_norm(comp.instance_name), prefix))

\* lines 43-80: the input matched against the instance names of the graph
match_instance_names(s_raw, graph_data) ==
    LET s         == _norm(s_raw)
        exact     == first_named(s, graph_data)
        canonical == canonical_of(base_of(s))
        wanted    == _norm(canonical \o <<"_">> \o index_of(s))
        matches   == prefix_matches(_norm(canonical \o <<"_">>), graph_data)
    IN IF exact # None THEN exact
       ELSE IF has_index(s) THEN first_named(wanted, graph_data)
       ELSE IF Len(matches) = 1 THEN Some(matches[1].id)
       ELSE None

\* resolve_component_id (lines 25-80)
resolve_component_id(user_input, graph_data) ==
    IF user_input = << >> THEN None
    ELSE LET s_raw == strip(user_input)
         IN IF startswith(lower(s_raw), s_comp_)
            THEN Some(lower(s_raw))
            ELSE match_instance_names(s_raw, graph_data)

\* get_component_name (lines 89-94)
get_component_name(component_id, graph_data) ==
    LET comps == graph_data.components
        hits  == {i \in 1..Len(comps) : comps[i].id = component_id}
    IN IF hits = {} THEN None
       ELSE Some(comps[CHOOSE i \in hits : \A j \in hits : i <= j].instance_name)

(***************************************************************************)
(* The adjacency builder (lines 112-130).                                  *)
(***************************************************************************)
graph_data == [components |-> components, connections |-> connections]

Range(f) == {f[i] : i \in DOMAIN f}

\* list(a_set): the elements of a set in one order, each once
RECURSIVE list_of(_)
list_of(S) ==
    IF S = {} THEN << >>
    ELSE LET x == CHOOSE x \in S : TRUE
         IN << x >> \o list_of(S \ {x})

\* every order list(a_set) can have: the iteration order of a Python set of
\* str is not fixed (it changes with the hash seed of the process)
Orderings(S) == {l \in [1..Cardinality(S) -> S] : Range(l) = S}

\* a slip: every connection filed under one key, whatever its wire
wire_components_one_key(gd) ==
    [w \in {"wire"} |-> {conn.component : conn \in Range(gd.connections)}]

\* wire_components (lines 119-121): wire -> set of the components on it
wire_components(gd) ==
    [w \in {conn.wire : conn \in Range(gd.connections)} |->
        {conn.component : conn \in {c \in Range(gd.connections) : c.wire = w}}]

\* a slip: the components of a wire kept as a list, one entry per connection
components_list_per_connection(w, gd) ==
    LET on_w == SelectSeq(gd.connections, LAMBDA conn : conn.wire = w)
    IN [i \in 1..Len(on_w) |-> on_w[i].component]

\* components_list = list(components) (line 124), for the wire w
components_list(w, gd) == list_of(wire_components(gd)[w])

\* the pairs (comp1, comp2) of lines 125-126: components_list[i] with every
\* element of components_list[i + 1:]
wire_pairs(w, gd) ==
    LET l == components_list(w, gd)
    IN {<<l[q[1]], l[q[2]]>> :
            q \in {r \in (1..Len(l)) \X (1..Len(l)) : r[1] < r[2]}}

\* a slip: line 128 left out, an edge is added from comp1 to comp2 only
edges_one_way(gd) ==
    UNION {wire_pairs(w, gd) : w \in DOMAIN wire_components(gd)}

\* the edges added at lines 127-128, both directions, over all wires
edges(gd) ==
    UNION { {p, <<p[2], p[1]>>} : p \in
            UNION {wire_pairs(w, gd) : w \in DOMAIN wire_components(gd)} }

\* build_adjacency_graph (lines 112-130): a key exists for exactly the
\* components some edge was added for (adjacency is a defaultdict)
build_adjacency_graph(gd) ==
    LET E == edges(gd)
    IN [c \in {e[1] : e \in E} |-> {e[2] : e \in {d \in E : d[1] = c}}]

\* adjacency.get(key, set())
adjacency_get(adj, key) == IF key \in DOMAIN adj THEN adj[key] ELSE {}

(***************************************************************************)
(* find_neighbors (lines 175-198) and the entry of find_path_bfs.          *)
(***************************************************************************)
\* "if not x": None and the empty string are falsy
falsy(opt) == opt = None \/ opt = Some(<< >>)

\* lines 138-143 (and 145-150, 180-185): a reference that begins with
\* "comp_" once lowercased is lowercased and kept (it is not stripped);
\* any other goes through resolve_component_id
resolve_endpoint(ref, gd) ==
    IF ~startswith(lower(ref), s_comp_)
    THEN resolve_component_id(ref, gd)
    ELSE Some(lower(ref))

\* lines 187-196: the wires of component_id, then the other components on them
neighbor_set(component_id, gd) ==
    LET component_wires ==
            {conn.wire : conn \in
                {c \in Range(gd.connections) : c.component = component_id}}
    IN {conn.component : conn \in
            {c \in Range(gd.connections) :
                c.wire \in component_wires /\ c.component # component_id}}

\* find_neighbors (lines 175-198): the lists it can return
find_neighbors(component_id, gd) ==
    LET id == resolve_endpoint(component_id, gd)
    IN IF falsy(id) THEN { << >> }
       ELSE Orderings(neighbor_set(id[1], gd))

\* a slip: the end endpoint is not checked after its resolution
find_path_bfs_entry_end_unchecked(start, end, gd) ==
    LET s == resolve_endpoint(start, gd)
        e == resolve_endpoint(end, gd)
    IN IF falsy(s)
       THEN [returns |-> TRUE, value |-> None, start |-> None, end |-> None]
       ELSE IF s = e
       THEN [returns |-> TRUE, value |-> Some(<< s[1] >>), start |-> s, end |-> e]
       ELSE [returns |-> FALSE, value |-> None, start |-> s, end |-> e]

\* find_path_bfs, lines 138-153: what is decided before the search.
\* returns: the function returns here, with value; else the search starts
\* from start towards end.
find_path_bfs_entry(start, end, gd) ==
    LET s == resolve_endpoint(start, gd)
        e == resolve_endpoint(end, gd)
    IN IF falsy(s)
       THEN [returns |-> TRUE, value |-> None, start |-> None, end |-> None]
       ELSE IF falsy(e)
       THEN [returns |-> TRUE, value |-> None, start |-> s, end |-> None]
       ELSE IF s = e
       THEN [returns |-> TRUE, value |-> Some(<< s[1] >>), start |-> s, end |-> e]
       ELSE [returns |-> FALSE, value |-> None, start |-> s, end |-> e]

(***************************************************************************)
(* find_all_paths.  api_server.py imports it from graph_functions (lines   *)
(* 7-13) and calls it at line 148; its definition is not in the source, so *)
(* it is written from the design: both endpoints resolved by               *)
(* resolve_component_id, an unresolved endpoint giving the empty list;     *)
(* then a depth-first enumeration of the simple paths over the adjacency   *)
(* map, a branch abandoned once its length exceeds MAX_DEPTH, the          *)
(* enumeration stopped once MAX_PATHS paths are collected (checked before  *)
(* any further recursion).                                                 *)
(***************************************************************************)
MAX_DEPTH == 20
MAX_PATHS == 50

\* the neighbours of node in the order the for loop takes them: the order
\* of a set is not fixed, order (a list of the ids) stands for it
ordered_neighbors(adj, node, order) ==
    LET N == adjacency_get(adj, node)
    IN SelectSeq(order, LAMBDA x : x \in N)

RECURSIVE dfs(_, _, _, _, _, _)
RECURSIVE dfs_each(_, _, _, _, _, _)

\* one call of the recursion: path ends with node; found is the list of
\* the paths collected so far, returned with the paths this call adds
dfs(node, end, path, adj, order, found) ==
    IF Len(found) >= MAX_PATHS THEN found
    ELSE IF Len(path) > MAX_DEPTH THEN found
    ELSE IF node = end THEN Append(found, path)
    ELSE dfs_each(ordered_neighbors(adj, node, order), end, path, adj, order, found)

\* the loop over the neighbours of the last node of path: a neighbour on
\* the path already is skipped, any other is tried and then taken off again
dfs_each(nbrs, end, path, adj, order, found) ==
    IF nbrs = << >> THEN found
    ELSE LET neighbor == Head(nbrs)
             after == IF neighbor \in Range(path) THEN found
                      ELSE dfs(neighbor, end, Append(path, neighbor), adj, order, found)
         IN dfs_each(Tail(nbrs), end, path, adj, order, after)

find_all_paths(start, end, gd, order) ==
    LET s == resolve_component_id(start, gd)
        e == resolve_component_id(end, gd)
    IN IF s = None \/ e = None THEN << >>
       ELSE dfs(s[1], e[1], << s[1] >>, build_adjacency_graph(gd), order, << >>)

(***************************************************************************)
(* The graphs and the references the model runs the core on.               *)
(***************************************************************************)
\* "comp_<i>", the id of the i-th component
CompId(i) == s_comp_ \o << Digits[i + 1] >>

s_pump_1 == <<"p","u","m","p","_","1">>
s_BOILER_1 == <<"B","O","I","L","E","R","_","1">>
s_Ball_Valve_ == <<"B","a","l","l","_","V","a","l","v","e","_">>

\* pump_1, BOILER_1, Ball_Valve_1, Ball_Valve_2, ...
InstanceName(i) ==
    IF i = 1 THEN s_pump_1
    ELSE IF i = 2 THEN s_BOILER_1
    ELSE s_Ball_Valve_ \o << Digits[i - 1] >>

PathComponents ==
    [i \in 1..MaxComps |-> [id |-> CompId(i), instance_name |-> InstanceName(i)]]

Wires == {"wire_A", "wire_B"}

\* every {component, wire} entry over the components and wires, in one order
ConnValues ==
    list_of({[component |-> CompId(i), wire |-> w] : i \in 1..MaxComps, w \in Wires})

\* The connections lists of at most MaxConns entries, an entry possibly
\* repeated.  The core only builds sets from the list, so one order of each
\* multiset of entries is taken.
ConnectionLists ==
    UNION { { [i \in 1..k |-> ConnValues[f[i]]] :
                f \in {g \in [1..k -> 1..Len(ConnValues)] :
                          \A i \in 1..(k - 1) : g[i] <= g[i + 1]} } :
            k \in 0..MaxConns }

s_comp_999 == <<"c","o","m","p","_","9","9","9">>
s_COMP_1 == <<"C","O","M","P","_","1">>
s_comp_1_blanks == <<"c","o","m","p","_","1"," "," "," ">>
s_pump_sp_1 == <<"P","u","m","p"," ","1">>
s_zz == <<"z","z">>

\* The references given to the path and neighbour queries: every id of the
\* graph, an id no component has, an id in upper case, an id followed by
\* blanks, an instance name written loosely, and a name of no component.
PathRefs ==
    {CompId(i) : i \in 1..MaxComps}
        \cup {s_comp_999, s_COMP_1, s_comp_1_blanks, s_pump_sp_1, s_zz}

(***************************************************************************)
(* The state machine: one call of a core function at a time.               *)
(***************************************************************************)
NoLocals ==
    /\ start_component = None
    /\ end_component = None
    /\ adjacency = None
    /\ queue = << >>
    /\ visited = {}
    /\ current = None
    /\ neighbors = {}

Init ==
    /\ components = PathComponents
    /\ connections \in ConnectionLists
    /\ pc = "idle"
    /\ op = "none"
    /\ args = << >>
    /\ result = None
    /\ NoLocals

\* the core is single-threaded and synchronous: a call starts when no other
\* is running
Callable == pc = "idle"

\* a call that returns at once: no local of find_path_bfs is left set
Returns(name, arguments, value) ==
    /\ pc' = "done"
    /\ op' = name
    /\ args' = arguments
    /\ result' = value
    /\ start_component' = None
    /\ end_component' = None
    /\ adjacency' = None
    /\ queue' = << >>
    /\ visited' = {}
    /\ current' = None
    /\ neighbors' = {}
    /\ UNCHANGED <<components, connections>>

\* resolve_component_id(user_input, graph_data)
Resolve(user_input) ==
    /\ Callable
    /\ Returns("resolve_component_id", << user_input >>,
               resolve_component_id(user_input, graph_data))

\* build_adjacency_graph(graph_data)
BuildAdjacency ==
    /\ Callable
    /\ Returns("build_adjacency_graph", << >>, build_adjacency_graph(graph_data))

\* find_neighbors(component_id, graph_data)
FindNeighbors(component_id) ==
    /\ Callable
    /\ \E l \in find_neighbors(component_id, graph_data) :
          Returns("find_neighbors", << component_id >>, l)

\* get_component_name(component_id, graph_data)
GetComponentName(component_id) ==
    /\ Callable
    /\ Returns("get_component_name", << component_id >>,
               get_component_name(component_id, graph_data))

\* find_path_bfs(start, end, graph_data), lines 138-158, called for the
\* operation name with the arguments given: it returns at once, or builds
\* the adjacency map and enters the while loop
StartFindPath(name, arguments, start, end) ==
    /\ \E e \in {find_path_bfs_entry(start, end, graph_data)} :
          /\ op' = name
          /\ args' = arguments
          /\ start_component' = e.start
          /\ end_component' = e.end
          /\ current' = None
          /\ neighbors' = {}
          /\ IF e.returns
             THEN /\ pc' = "done"
                  /\ result' = e.value
                  /\ adjacency' = None
                  /\ queue' = << >>
                  /\ visited' = {}
             ELSE /\ pc' = "bfs"
                  /\ result' = None
                  /\ adjacency' = Some(build_adjacency_graph(graph_data))
                  /\ queue' = << [node |-> e.start[1], path |-> << e.start[1] >>] >>
                  /\ visited' = {e.start[1]}
    /\ UNCHANGED <<components, connections>>

\* a call of find_path_bfs on its own
FindPath(start, end) ==
    /\ Callable
    /\ StartFindPath("find_path_bfs", << start, end >>, start, end)

\* queue.popleft()
popleft(q) == [item |-> Head(q), rest |-> Tail(q)]

\* a slip: the path restarts from its first node instead of growing
extend_path_from_start(path, neighbor) == << path[1], neighbor >>

\* path + [neighbor] (lines 166 and 170)
extend_path(path, neighbor) == path \o << neighbor >>

\* a slip: the neighbour is enqueued without being marked
visited_add_forgotten(seen, neighbor) == seen

\* visited.add(neighbor) (line 169)
visited_add(seen, neighbor) == seen \cup {neighbor}

\* lines 160-163: the for loop over the last node is over, the next node is
\* popped and its neighbours are looked up
BfsPop ==
    /\ pc = "bfs"
    /\ neighbors = {}
    /\ queue # << >>
    /\ current' = Some(popleft(queue).item)
    /\ queue' = popleft(queue).rest
    /\ neighbors' = adjacency_get(adjacency[1], popleft(queue).item.node)
    /\ UNCHANGED <<components, connections, pc, op, args, result,
                   start_component, end_component, adjacency, visited>>

\* lines 164-170: one iteration of "for neighbor in neighbors", the
\* neighbours taken in any order
BfsNeighbor ==
    /\ pc = "bfs"
    /\ \E neighbor \in neighbors :
          IF Some(neighbor) = end_component
          THEN /\ pc' = "done"
               /\ result' = Some(extend_path(current[1].path, neighbor))
               /\ queue' = << >>
               /\ visited' = {}
               /\ current' = None
               /\ neighbors' = {}
          ELSE /\ neighbors' = neighbors \ {neighbor}
               /\ IF neighbor \notin visited
                  THEN /\ visited' = visited_add(visited, neighbor)
                       /\ queue' = Append(queue,
                              [node |-> neighbor,
                               path |-> extend_path(current[1].path, neighbor)])
                  ELSE UNCHANGED <<visited, queue>>
               /\ UNCHANGED <<pc, result, current>>
    /\ UNCHANGED <<components, connections, op, args, start_component,
                   end_component, adjacency>>

\* line 172: the queue is empty, return None
BfsExhausted ==
    /\ pc = "bfs"
    /\ neighbors = {}
    /\ queue = << >>
    /\ pc' = "done"
    /\ result' = None
    /\ visited' = {}
    /\ current' = None
    /\ UNCHANGED <<components, connections, op, args, start_component,
                   end_component, adjacency, queue, neighbors>>

\* a slip: the adjacency map built by a search is kept for the next call
Return_keeps_adjacency ==
    /\ pc = "done"
    /\ pc' = "idle"
    /\ op' = "none"
    /\ args' = << >>
    /\ result' = None
    /\ start_component' = None
    /\ end_component' = None
    /\ UNCHANGED <<components, connections, adjacency, queue, visited, current,
                   neighbors>>

\* the caller has taken the return value; nothing of the call is kept
Return ==
    /\ pc = "done"
    /\ pc' = "idle"
    /\ op' = "none"
    /\ args' = << >>
    /\ result' = None
    /\ start_component' = None
    /\ end_component' = None
    /\ adjacency' = None
    /\ UNCHANGED <<components, connections, queue, visited, current, neighbors>>

Next ==
    \/ \E r \in PathRefs : Resolve(r)
    \/ BuildAdjacency
    \/ \E r \in PathRefs : FindNeighbors(r)
    \/ \E r \in PathRefs : GetComponentName(r)
    \/ \E s \in PathRefs, e \in PathRefs : FindPath(s, e)
    \/ BfsPop
    \/ BfsNeighbor
    \/ BfsExhausted
    \/ Return

Spec == Init /\ [][Next]_vars

\* The interpreter keeps running a loop it has entered: once inside the
\* while loop of find_path_bfs, a step of it that can be taken is taken.
SpecBfsFair == Spec /\ WF_vars(BfsPop \/ BfsNeighbor \/ BfsExhausted)

(***************************************************************************)
(* The resolver on its own: graphs whose components take their instance    *)
(* names from InstanceNames, in every order, and references made of an      *)
(* optional blank, a word, and an optional separator and index.            *)
(***************************************************************************)
InstanceNames ==
    { <<"B","a","l","l","_","V","a","l","v","e","_","1">>,
      <<"B","a","l","l","_","V","a","l","v","e","_","2">>,
      <<"B","a","l","l"," ","V","a","l","v","e"," ","1">>,
      <<"3","_","W","a","y","_","B","a","l","l","_","V","a","l","v","e","_","T","_","1">>,
      <<"p","u","m","p","_","1">>,
      <<"B","O","I","L","E","R","_","1">>,
      <<"c","o","m","p","_","x">>,
      <<"v","a","l","v","e","_","1">>,
      <<"x","_","1">> }

NamedComponents ==
    UNION { { [i \in 1..n |-> [id |-> CompId(i), instance_name |-> f[i]]] :
                f \in [1..n -> InstanceNames] } : n \in 0..MaxNamed }

BaseWords ==
    { <<"v","a","l","v","e">>,
      <<"b","a","l","l"," ","v","a","l","v","e">>,
      <<"B","a","l","l","-","V","a","l","v","e">>,
      <<"p","u","m","p">>,
      <<"B","o","i","l","e","r">>,
      <<"c","o","m","p">>,
      <<"C","O","M","P">>,
      <<"c","o","m","p","_","x">>,
      <<"x">>,
      <<"z","z">>,
      <<"3"," ","w","a","y"," ","v","a","l","v","e">> }

Separators == { <<"_">>, <<" ">>, <<"-">> }

\* "1" .. "<MaxIndex>", and the two-digit "10"
Indices == { << Digits[i + 1] >> : i \in 1..MaxIndex } \cup { <<"1","0">> }

Unpadded ==
    BaseWords \cup { b \o sep \o idx : b \in BaseWords, sep \in Separators, idx \in Indices }

Inputs ==
    { << >> } \cup Unpadded
        \cup { <<" ">> \o u : u \in Unpadded } \cup { u \o <<" ">> : u \in Unpadded }

InitResolver ==
    /\ components \in NamedComponents
    /\ connections = << >>
    /\ pc = "idle"
    /\ op = "none"
    /\ args = << >>
    /\ result = None
    /\ NoLocals

NextResolver ==
    \/ \E u \in Inputs : Resolve(u)
    \/ Return

SpecResolver == InitResolver /\ [][NextResolver]_vars

(***************************************************************************)
(* The all-paths enumeration on its own: the small graphs of Spec, and     *)
(* graphs large enough for both limits, made of components that all share  *)
(* one wire and a chain of components hanging from the last of them.       *)
(***************************************************************************)
RECURSIVE NumStr(_)
NumStr(n) ==
    IF n < 10 THEN << Digits[n + 1] >>
    ELSE NumStr(n \div 10) \o << Digits[(n % 10) + 1] >>

\* "comp_<n>" for any n
LongId(n) == s_comp_ \o NumStr(n)

LongName(n) ==
    IF n = 1 THEN s_pump_1
    ELSE IF n = 2 THEN s_BOILER_1
    ELSE s_Ball_Valve_ \o NumStr(n - 2)

WireNames ==
    <<"wire_A", "wire_B", "wire_C", "wire_D", "wire_E", "wire_F", "wire_G",
      "wire_H", "wire_I", "wire_J", "wire_K", "wire_L", "wire_M", "wire_N",
      "wire_O", "wire_P", "wire_Q", "wire_R", "wire_S", "wire_T", "wire_U",
      "wire_V", "wire_W", "wire_X", "wire_Y", "wire_Z">>

\* comp_1 .. comp_k on wire_A; then comp_k and comp_k+1 on wire_B, comp_k+1
\* and comp_k+2 on wire_C, ..., l components after comp_k
Lollipop(k, l) ==
    [components |->
        [i \in 1..(k + l) |-> [id |-> LongId(i), instance_name |-> LongName(i)]],
     connections |->
        [i \in 1..k |-> [component |-> LongId(i), wire |-> WireNames[1]]]
        \o [i \in 1..(2 * l) |->
               [component |-> LongId(k + (i \div 2)),
                wire |-> WireNames[((i + 1) \div 2) + 1]]]]

AllPathsGraphs ==
    {[components |-> PathComponents, connections |-> c] : c \in ConnectionLists}
        \cup {Lollipop(k, l) : k \in 1..MaxClique, l \in 0..MaxChain}

\* The orders the neighbours are taken in: any order of the ids on a graph
\* of three components at most; on a larger one the order of the
\* components list, that order turned half round, and the reverse of both.
IterationOrders(comps) ==
    LET n   == Len(comps)
        ids == [i \in 1..n |-> comps[i].id]
        turned == [i \in 1..n |-> ids[((i + (n \div 2) - 1) % n) + 1]]
    IN IF n <= 3 THEN Orderings(Range(ids))
       ELSE {ids, turned,
             [i \in 1..n |-> ids[n + 1 - i]], [i \in 1..n |-> turned[n + 1 - i]]}

\* the references given to find_all_paths: every id of a small graph, the
\* first two ids and the last id of a large one, an instance name written
\* loosely and a name of no component
AllPathsRefs(comps) ==
    {comps[i].id : i \in {j \in DOMAIN comps :
                             Len(comps) <= MaxComps \/ j <= 2 \/ j = Len(comps)}}
        \cup {s_pump_sp_1, s_zz}

InitAllPaths ==
    /\ \E g \in AllPathsGraphs :
          /\ components = g.components
          /\ connections = g.connections
    /\ pc = "idle"
    /\ op = "none"
    /\ args = << >>
    /\ result = None
    /\ NoLocals

\* find_all_paths(start, end, graph_data)
FindAllPaths(start, end) ==
    /\ Callable
    /\ \E order \in IterationOrders(components) :
          Returns("find_all_paths", << start, end >>,
                  find_all_paths(start, end, graph_data, order))

NextAllPaths ==
    \/ \E s \in AllPathsRefs(components), e \in AllPathsRefs(components) :
          FindAllPaths(s, e)
    \/ Return

SpecAllPaths == InitAllPaths /\ [][NextAllPaths]_vars

(***************************************************************************)
(* The boundary adapters: the tool handler of src/mcp_server.py and the    *)
(* routes of src/api_server.py.  A response is [raised, body]: raised      *)
(* names the exception that leaves the handler (none when it returns),     *)
(* body is the object returned, a key it does not carry (or carries as     *)
(* null) being None.                                                       *)
(***************************************************************************)
\* a_dict.get(key)
dict_get(d, key) == IF key \in DOMAIN d THEN Some(d[key]) ELSE None

s_gasolio == <<"g","a","s","o","l","i","o">>
s_schema_completo == <<"s","c","h","e","m","a","_","c","o","m","p","l","e","t","o">>
s_schema_ridotto == <<"s","c","h","e","m","a","_","r","i","d","o","t","t","o">>
s_broken == <<"b","r","o","k","e","n">>
s_dot_json == <<".","j","s","o","n">>

\* the stems of json/*.json; the file of s_broken holds no valid JSON, every
\* other holds the graph of the state
json_dir == {s_gasolio, s_schema_completo, s_schema_ridotto, s_broken}

\* str.endswith(suffix)
endswith(s, suffix) ==
    /\ Len(suffix) <= Len(s)
    /\ SubSeq(s, Len(s) - Len(suffix) + 1, Len(s)) = suffix

\* sub in s
contains(s, sub) ==
    \E i \in 0..(Len(s) - Len(sub)) : SubSeq(s, i + 1, i + Len(sub)) = sub

\* resolve_graph_file (mcp_server.py lines 37-75, api_server.py 64-96) for
\* a str: the path found, or the exception raised
resolve_graph_file(graph_ref) ==
    LET raw      == strip(graph_ref)
        normed   == _norm(raw)
        raw_norm == IF endswith(normed, s_dot_json)
                    THEN strip(SubSeq(normed, 1, Len(normed) - 5))
                    ELSE normed
        exact    == {p \in json_dir : _norm(p) = raw_norm}
        matches  == {p \in json_dir : contains(_norm(p), raw_norm)}
    IN IF json_dir = {} THEN [raises |-> Some("FileNotFoundError"), path |-> None]
       ELSE IF exact # {}
       THEN [raises |-> None, path |-> Some(CHOOSE p \in exact : TRUE)]
       ELSE IF Cardinality(matches) = 1
       THEN [raises |-> None, path |-> Some(CHOOSE p \in matches : TRUE)]
       ELSE IF matches = {}
       THEN [raises |-> Some("FileNotFoundError"), path |-> None]
       ELSE [raises |-> Some("ValueError"), path |-> None]

\* load_graph (graph_functions.py lines 83-86): json.load of the file
load_graph(path, gd) ==
    IF path = s_broken
    THEN [raises |-> Some("JSONDecodeError"), graph |-> None]
    ELSE [raises |-> None, graph |-> Some(gd)]

\* the object a handler returns
Body(success, error, message, path, paths, truncated, neighbor_list) ==
    [success |-> success, error |-> error, message |-> message, path |-> path,
     paths |-> paths, truncated |-> truncated, neighbors |-> neighbor_list]

returned(body) == [raised |-> None, body |-> Some(body)]
raised(exception) == [raised |-> Some(exception), body |-> None]

\* an error object: {"error": ..., "message": ..., "success": False}
error_response(error, message) ==
    Body(FALSE, Some(error), Some(message), None, None, None, None)

\* the list of {position, component_id, component_name} built for a path
path_details(path_nodes, gd) ==
    [i \in 1..Len(path_nodes) |->
        [position |-> i, component_id |-> path_nodes[i],
         component_name |-> get_component_name(path_nodes[i], gd)]]

\* the list of {component_id, component_name} built for the neighbours
neighbor_details(neighbor_ids, gd) ==
    [i \in 1..Len(neighbor_ids) |->
        [component_id |-> neighbor_ids[i],
         component_name |-> get_component_name(neighbor_ids[i], gd)]]

(***************************************************************************)
(* call_tool (mcp_server.py lines 141-306).                                *)
(***************************************************************************)
\* lines 147-204: the error object returned before the tool is looked at,
\* none when the graph is loaded
call_tool_graph(arguments, gd) ==
    LET graph_ref  == dict_get(arguments, "graph")
        graph_file == resolve_graph_file(graph_ref[1])
        graph      == load_graph(graph_file.path[1], gd)
    IN IF graph_ref = None
       THEN Some(error_response("MissingGraph", "You must provide a 'graph' argument"))
       ELSE IF graph_file.raises = Some("FileNotFoundError")
       THEN Some(error_response("FileNotFoundError", "Graph not found"))
       ELSE IF graph_file.raises = Some("ValueError")
       THEN Some(error_response("InvalidGraph", "Graph name is ambiguous"))
       ELSE IF graph.raises # None
       THEN Some(error_response("JSONDecodeError", "Invalid JSON"))
       ELSE None

\* lines 215-249: the result built from the return value of find_path_bfs
call_tool_find_path_result(path, gd) ==
    IF path = None
    THEN Body(FALSE, None, Some("No path found between"), None, None, None, None)
    ELSE Body(TRUE, None, Some("Found shortest path with"),
              Some(path_details(path[1], gd)), None, None, None)

\* lines 268-287: the result built from the return value of find_neighbors
call_tool_find_neighbors_result(neighbor_ids, gd) ==
    Body(TRUE, None, Some("Found neighbor(s) for"), None, None, None,
         Some(neighbor_details(neighbor_ids, gd)))

\* lines 299-306
unknown_tool_response == error_response("UnknownTool", "Tool is not recognized")

(***************************************************************************)
(* The routes of api_server.py (lines 101-263).                            *)
(***************************************************************************)
\* load_graph_safe (lines 101-129): the HTTPException raised, none when the
\* graph is loaded
load_graph_safe(graph_ref, gd) ==
    LET graph_file == resolve_graph_file(graph_ref)
        graph      == load_graph(graph_file.path[1], gd)
    IN IF graph_file.raises = Some("FileNotFoundError") THEN Some("HTTPException 404")
       ELSE IF graph_file.raises = Some("ValueError") THEN Some("HTTPException 400")
       ELSE IF graph.raises # None THEN Some("HTTPException 500")
       ELSE None

\* find_path, lines 149-178: the response built from the list of paths
find_path_response(paths, gd) ==
    IF paths = << >>
    THEN Body(FALSE, None, Some("No path found"), None, Some(<< >>), Some(FALSE), None)
    ELSE Body(TRUE, None, Some("Found path(s)"), None,
              Some([i \in 1..Len(paths) |-> path_details(paths[i], gd)]),
              Some(Len(paths) >= MAX_PATHS), None)

\* find_shortest_path, lines 197-228
find_shortest_path_response(path_nodes, gd) ==
    IF path_nodes = None
    THEN Body(FALSE, None, Some("No path found between"), None, None, None, None)
    ELSE Body(TRUE, None, Some("Found shortest path with"),
              Some(path_details(path_nodes[1], gd)), None, None, None)

\* neighbors, lines 247-263
neighbors_response(neighbor_ids, gd) ==
    Body(TRUE, None, Some("Found neighbor(s) for"), None, None, None,
         Some(neighbor_details(neighbor_ids, gd)))

(***************************************************************************)
(* The adapters as a state machine: a request is handled from the idle     *)
(* state; the handlers of the shortest-path queries run find_path_bfs step *)
(* by step and build their response when it has returned.                  *)
(***************************************************************************)
s_Gasolio_json == <<"G","a","s","o","l","i","o",".","j","s","o","n">>
s_schema == <<"s","c","h","e","m","a">>
s_nofile == <<"n","o","f","i","l","e">>

\* graph references: the stem of a file, that stem in another case and with
\* its extension, a fragment of two stems, a name of no file, and the stem
\* of the file that holds no valid JSON
GraphRefs == {s_gasolio, s_Gasolio_json, s_schema, s_nofile, s_broken}

\* the component references of the path queries; the id followed by blanks
\* is left to the core queries
AdapterRefs == PathRefs \ {s_comp_1_blanks}

ToolNames == {"find_path", "find_neighbors", "list_components"}

ArgumentKeys == {"graph", "start_component", "end_component", "component"}

\* The tool calls: each tool with its complete arguments, over the
\* component references; and every tool name, known or not, with every
\* object that leaves out any of the keys and with every graph reference.
ToolCalls ==
    {<< "find_path",
        [graph |-> s_gasolio, start_component |-> s, end_component |-> e] >> :
        s \in AdapterRefs, e \in AdapterRefs}
    \cup {<< "find_neighbors", [graph |-> s_gasolio, component |-> c] >> :
            c \in AdapterRefs}
    \cup {<< name,
             [k \in keys |->
                 [graph |-> s_gasolio, start_component |-> CompId(1),
                  end_component |-> CompId(2), component |-> CompId(1)][k]] >> :
            name \in ToolNames, keys \in SUBSET ArgumentKeys}
    \cup {<< name,
             [graph |-> g, start_component |-> CompId(1),
              end_component |-> CompId(2), component |-> CompId(1)] >> :
            name \in ToolNames, g \in GraphRefs}

\* FindPathRequest / FindShortestPathRequest: three str fields
PathRequests ==
    {[graph |-> s_gasolio, start_component |-> s, end_component |-> e] :
        s \in AdapterRefs, e \in AdapterRefs}
    \cup {[graph |-> g, start_component |-> CompId(1), end_component |-> CompId(2)] :
            g \in GraphRefs}

\* FindNeighborsRequest: two str fields
NeighborsRequests ==
    {[graph |-> s_gasolio, component |-> c] : c \in AdapterRefs}
    \cup {[graph |-> g, component |-> CompId(1)] : g \in GraphRefs}

\* the handler is over: response is what it returned or raised
Responds(name, arguments, response) ==
    /\ pc' = "responded"
    /\ op' = name
    /\ args' = arguments
    /\ result' = response
    /\ start_component' = None
    /\ end_component' = None
    /\ adjacency' = None
    /\ queue' = << >>
    /\ visited' = {}
    /\ current' = None
    /\ neighbors' = {}
    /\ UNCHANGED <<components, connections>>

\* call_tool(name, arguments), lines 141-306.  arguments["start_component"],
\* arguments["end_component"] (lines 207-208) and arguments["component"]
\* (line 262) are read outside any try block: a missing key raises KeyError.
\* find_path_bfs and find_neighbors raise nothing for str arguments, so the
\* except branches of lines 251-257 and 289-295 are not taken.
McpCallTool(name, arguments) ==
    /\ Callable
    /\ LET early == call_tool_graph(arguments, graph_data)
           call  == << name, arguments >>
       IN IF early # None
          THEN Responds("call_tool", call, returned(early[1]))
          ELSE IF name = "find_path"
          THEN IF {"start_component", "end_component"} \subseteq DOMAIN arguments
               THEN StartFindPath("call_tool", call, arguments["start_component"],
                                  arguments["end_component"])
               ELSE Responds("call_tool", call, raised("KeyError"))
          ELSE IF name = "find_neighbors"
          THEN IF "component" \in DOMAIN arguments
               THEN \E l \in find_neighbors(arguments["component"], graph_data) :
                       Responds("call_tool", call,
                                returned(call_tool_find_neighbors_result(l, graph_data)))
               ELSE Responds("call_tool", call, raised("KeyError"))
          ELSE Responds("call_tool", call, returned(unknown_tool_response))

\* lines 213-259: find_path_bfs has returned, the result is built and returned
McpFindPathReturn ==
    /\ pc = "done"
    /\ op = "call_tool"
    /\ Responds(op, args, returned(call_tool_find_path_result(result, graph_data)))

\* find_shortest_path(req), lines 181-196
HttpFindShortestPath(req) ==
    /\ Callable
    /\ LET failed == load_graph_safe(req.graph, graph_data)
       IN IF failed # None
          THEN Responds("/find_shortest_path", << req >>, raised(failed[1]))
          ELSE StartFindPath("/find_shortest_path", << req >>,
                             req.start_component, req.end_component)

\* lines 197-228: find_path_bfs has returned, the response is built
HttpFindShortestPathReturn ==
    /\ pc = "done"
    /\ op = "/find_shortest_path"
    /\ Responds(op, args, returned(find_shortest_path_response(result, graph_data)))

\* neighbors(req), lines 231-263
HttpNeighbors(req) ==
    /\ Callable
    /\ LET failed == load_graph_safe(req.graph, graph_data)
       IN IF failed # None
          THEN Responds("/find_neighbors", << req >>, raised(failed[1]))
          ELSE \E l \in find_neighbors(req.component, graph_data) :
                  Responds("/find_neighbors", << req >>,
                           returned(neighbors_response(l, graph_data)))

\* find_path(req), lines 144-178
HttpFindPath(req) ==
    /\ Callable
    /\ LET failed == load_graph_safe(req.graph, graph_data)
       IN IF failed # None
          THEN Responds("/find_path", << req >>, raised(failed[1]))
          ELSE \E order \in IterationOrders(components) :
                  Responds("/find_path", << req >>,
                           returned(find_path_response(
                               find_all_paths(req.start_component, req.end_component,
                                              graph_data, order),
                               graph_data)))

NextAdapters ==
    \/ \E call \in ToolCalls : McpCallTool(call[1], call[2])
    \/ McpFindPathReturn
    \/ \E req \in PathRequests : HttpFindShortestPath(req)
    \/ HttpFindShortestPathReturn
    \/ \E req \in NeighborsRequests : HttpNeighbors(req)
    \/ \E req \in PathRequests : HttpFindPath(req)
    \/ BfsPop
    \/ BfsNeighbor
    \/ BfsExhausted

SpecAdapters == Init /\ [][NextAdapters]_vars

(***************************************************************************)
(* What the claims speak of, stated from the graph alone.                  *)
(***************************************************************************)
ComponentIds == {components[i].id : i \in DOMAIN components}

\* a and b are on one wire at least
SharesWire(a, b) ==
    \E c1 \in Range(connections), c2 \in Range(connections) :
        c1.component = a /\ c2.component = b /\ c1.wire = c2.wire

\* the components one shared wire away from a
OneWireAway(a) ==
    {conn.component : conn \in {c \in Range(connections) :
                                   c.component # a /\ SharesWire(a, c.component)}}

\* the components at most k shared wires away from a
RECURSIVE WithinWires(_, _)
WithinWires(a, k) ==
    IF k = 0 THEN {a}
    ELSE LET R == WithinWires(a, k - 1)
         IN R \cup UNION {OneWireAway(x) : x \in R}

\* a and b share a wire directly or transitively (a component is joined to
\* itself)
Joined(a, b) == b \in WithinWires(a, Len(connections))

\* the id the reference resolves to (none when unresolved)
Resolved(ref) == resolve_component_id(ref, graph_data)

Returned(name) == pc = "done" /\ op = name

\* the canonical id pattern, comp_<digits>, whatever the case
IsCanonicalId(ref) ==
    LET s == lower(strip(ref))
    IN /\ startswith(s, s_comp_)
       /\ Len(s) > Len(s_comp_)
       /\ \A i \in (Len(s_comp_) + 1)..Len(s) : IsDigit(s[i])

(***************************************************************************)
(* C1.  For every graph and every pair of references that resolve to       *)
(* distinct ids, a path returned by find_path_bfs begins with the start    *)
(* id, ends with the end id, every two consecutive ids of it share a wire, *)
(* and the end is not reachable from the start over fewer shared wires.    *)
(***************************************************************************)
C1_ShortestPath ==
    (Returned("find_path_bfs") /\ result # None)
    => LET path == result[1]
           s    == Resolved(args[1])
           e    == Resolved(args[2])
       IN (s # None /\ e # None /\ s # e)
          => /\ Len(path) >= 2
             /\ path[1] = s[1]
             /\ path[Len(path)] = e[1]
             /\ \A i \in 1..(Len(path) - 1) : SharesWire(path[i], path[i + 1])
             /\ e[1] \notin WithinWires(s[1], Len(path) - 2)

\* a path over two wires is returned, its start given by an instance name
C1_Witness ==
    /\ Returned("find_path_bfs")
    /\ result # None
    /\ Len(result[1]) = 3
    /\ args[1] = s_pump_sp_1
    /\ Resolved(args[1]) # Resolved(args[2])

(***************************************************************************)
(* C2.  For all components A and B that share no wire, directly or         *)
(* transitively, find_path_bfs(A, B) returns None.                         *)
(***************************************************************************)
C2_NoPathWhenNotJoined ==
    Returned("find_path_bfs")
    => LET a == Resolved(args[1])
           b == Resolved(args[2])
       IN (/\ a # None
           /\ b # None
           /\ a[1] \in ComponentIds
           /\ b[1] \in ComponentIds
           /\ ~Joined(a[1], b[1]))
          => result = None

\* the search ran from a start that has neighbours, and exhausted them
C2_Witness ==
    /\ Returned("find_path_bfs")
    /\ result = None
    /\ adjacency # None
    /\ LET a == Resolved(args[1])
           b == Resolved(args[2])
       IN /\ a # None
          /\ b # None
          /\ a[1] \in ComponentIds
          /\ b[1] \in ComponentIds
          /\ OneWireAway(a[1]) # {}
          /\ ~Joined(a[1], b[1])

(***************************************************************************)
(* C3.  For every reference A that resolves to a component, the shortest   *)
(* path from A to A is the singleton path of the id of A, whatever the     *)
(* wires.                                                                  *)
(***************************************************************************)
C3_SelfPath ==
    (Returned("find_path_bfs") /\ args[1] = args[2])
    => LET a == Resolved(args[1])
       IN (a # None /\ a[1] \in ComponentIds) => result = Some(<< a[1] >>)

(***************************************************************************)
(* C4.  The adjacency relation built by build_adjacency_graph is symmetric *)
(* and irreflexive, also when a component is listed twice on a wire, and a *)
(* component alone on all its wires has no edge.                           *)
(***************************************************************************)
AloneOnItsWires(c) ==
    \A conn \in Range(connections) :
        conn.component = c =>
            \A other \in Range(connections) :
                other.wire = conn.wire => other.component = c

C4_AdjacencySymmetricIrreflexive ==
    Returned("build_adjacency_graph")
    => /\ \A a \in DOMAIN result :
              /\ a \notin result[a]
              /\ \A b \in result[a] : b \in DOMAIN result /\ a \in result[b]
       /\ \A c \in ComponentIds :
              AloneOnItsWires(c) => adjacency_get(result, c) = {}

\* a component is listed twice on a wire it shares, another is alone on its wire
C4_Witness ==
    /\ Returned("build_adjacency_graph")
    /\ \E i \in DOMAIN connections, j \in DOMAIN connections :
          /\ i # j
          /\ connections[i] = connections[j]
          /\ adjacency_get(result, connections[i].component) # {}
    /\ \E conn \in Range(connections) : AloneOnItsWires(conn.component)

(***************************************************************************)
(* C5.  For every reference that resolves to an id c, find_neighbors       *)
(* returns a list without duplicates whose elements are the adjacency set  *)
(* of c built by build_adjacency_graph (empty when c is no key of it).     *)
(***************************************************************************)
C5_NeighborsAreAdjacency ==
    Returned("find_neighbors")
    => LET c == Resolved(args[1])
       IN c # None
          => /\ \A i \in DOMAIN result, j \in DOMAIN result :
                    result[i] = result[j] => i = j
             /\ Range(result) =
                    adjacency_get(build_adjacency_graph(graph_data), c[1])

(***************************************************************************)
(* C6.  resolve_component_id returns the input lowercased, without         *)
(* consulting the graph, when the input matches comp_<digits> whatever the *)
(* case; every other input, one that only begins with "comp_" included, is *)
(* matched against the instance names of the graph.                        *)
(***************************************************************************)
C6_CanonicalIdElseGraph ==
    Returned("resolve_component_id")
    => IF IsCanonicalId(args[1])
       THEN result = Some(lower(strip(args[1])))
       ELSE result = match_instance_names(strip(args[1]), graph_data)

(***************************************************************************)
(* C7.  For an input with no trailing index and no exact instance-name     *)
(* match, resolve_component_id returns an id only if exactly one           *)
(* component's normalized instance name starts with canonical + "_", and   *)
(* then that component's id; with no such component or several it returns  *)
(* None.                                                                   *)
(***************************************************************************)
C7_UniquePrefixOnly ==
    (/\ Returned("resolve_component_id")
     /\ ~has_index(_norm(args[1]))
     /\ first_named(_norm(args[1]), graph_data) = None)
    => LET canonical == canonical_of(base_of(_norm(args[1])))
           matches   == prefix_matches(_norm(canonical \o <<"_">>), graph_data)
       IN /\ result # None => Len(matches) = 1 /\ result = Some(matches[1].id)
          /\ Len(matches) # 1 => result = None

(***************************************************************************)
(* C8.  For an input that is no canonical id, carries a trailing index     *)
(* once normalized and is no exact instance name, resolve_component_id     *)
(* returns the id of the first component whose normalized instance name is *)
(* the normalized canonical_index, the base mapped through the alias table *)
(* (kept when it has no alias), and None when there is no such component.  *)
(***************************************************************************)
C8_IndexNeedsExactName ==
    (/\ Returned("resolve_component_id")
     /\ ~IsCanonicalId(args[1])
     /\ has_index(_norm(args[1]))
     /\ first_named(_norm(args[1]), graph_data) = None)
    => LET s         == _norm(args[1])
           canonical == canonical_of(base_of(s))
       IN result = first_named(_norm(canonical \o <<"_">> \o index_of(s)), graph_data)

(***************************************************************************)
(* C9.  An unresolved reference (resolve_component_id returns None for it) *)
(* is signalled by a value: find_path_bfs returns None when either         *)
(* endpoint is unresolved, without building the adjacency map or entering  *)
(* the search loop, and find_neighbors returns the empty list.             *)
(***************************************************************************)
C9_UnresolvedIsAValue ==
    /\ op = "find_path_bfs"
       => LET searched == pc = "bfs" \/ adjacency # None \/ result # None
          IN searched => Resolved(args[1]) # None /\ Resolved(args[2]) # None
    /\ Returned("find_neighbors")
       => (Resolved(args[1]) = None => result = << >>)

\* the start resolves to a component with a neighbour, the end does not resolve
C9_Witness ==
    /\ Returned("find_path_bfs")
    /\ result = None
    /\ adjacency = None
    /\ Resolved(args[2]) = None
    /\ LET a == Resolved(args[1])
       IN a # None /\ OneWireAway(a[1]) # {}

(***************************************************************************)
(* C10.  Every id of a path returned by find_path_bfs is the id of a       *)
(* component of the graph: an endpoint that is a well-formed id of no      *)
(* component yields no path.                                               *)
(***************************************************************************)
C10_PathIdsAreComponents ==
    (Returned("find_path_bfs") /\ result # None)
    => \A i \in DOMAIN result[1] : result[1][i] \in ComponentIds

\* the components that share a wire with a, a apart
WireMates(a) ==
    LET wires_of_a == {c.wire : c \in {d \in Range(connections) : d.component = a}}
    IN {c.component : c \in {d \in Range(connections) :
                                 d.wire \in wires_of_a /\ d.component # a}}

\* frontier holds the sequences of k distinct components from the start,
\* each sharing a wire with the next, that do not pass through e; the
\* result is those of at most MAX_DEPTH components that end at e
RECURSIVE SimplePathsFrom(_, _, _)
SimplePathsFrom(frontier, e, k) ==
    IF frontier = {} \/ k > MAX_DEPTH THEN {}
    ELSE {p \in frontier : p[k] = e}
         \cup SimplePathsFrom(
                UNION { {Append(p, n) : n \in WireMates(p[k]) \ Range(p)} :
                        p \in {q \in frontier : q[k] # e} },
                e, k + 1)

\* the simple paths from s to e of at most MAX_DEPTH components
SimplePaths(s, e) == SimplePathsFrom({ << s >> }, e, 1)

(***************************************************************************)
(* C11.  For endpoints that resolve, find_all_paths returns at most        *)
(* MAX_PATHS (50) paths; each is a simple path (no component twice) from   *)
(* the start id to the end id of at most MAX_DEPTH (20) components; and    *)
(* when fewer than MAX_PATHS such paths exist, every one of them is        *)
(* returned.                                                               *)
(***************************************************************************)
C11_AllPathsBounded ==
    Returned("find_all_paths")
    => LET s == Resolved(args[1])
           e == Resolved(args[2])
       IN (s # None /\ e # None)
          => LET all == SimplePaths(s[1], e[1])
             IN /\ Len(result) <= MAX_PATHS
                /\ \A i \in DOMAIN result :
                       LET p == result[i]
                       IN /\ Len(p) >= 1
                          /\ Len(p) <= MAX_DEPTH
                          /\ p[1] = s[1]
                          /\ p[Len(p)] = e[1]
                          /\ \A j \in DOMAIN p, k \in DOMAIN p : p[j] = p[k] => j = k
                          /\ p \in all
                /\ Cardinality(all) < MAX_PATHS => Range(result) = all

\* on a graph of more than MAX_DEPTH components, fewer than MAX_PATHS paths
\* are returned, one of them of MAX_DEPTH components that leaves out a
\* component sharing a wire with the start: the longer path through it is
\* not returned
C11_Witness ==
    /\ Returned("find_all_paths")
    /\ Len(components) > MAX_DEPTH
    /\ Len(result) > 1
    /\ Len(result) < MAX_PATHS
    /\ \E i \in DOMAIN result :
          /\ Len(result[i]) = MAX_DEPTH
          /\ \E c \in WireMates(result[i][1]) : c \notin Range(result[i])

(***************************************************************************)
(* C12.  Whenever find_path_bfs returns a path and the all-paths result    *)
(* for the same graph and the same two references is under the depth and   *)
(* count bounds, the path returned by find_path_bfs is one of the paths    *)
(* find_all_paths returns, and none of those is shorter.                   *)
(***************************************************************************)
C12_BfsPathAmongAllPaths ==
    (Returned("find_path_bfs") /\ result # None)
    => \A order \in IterationOrders(components) :
          LET paths == find_all_paths(args[1], args[2], graph_data, order)
              under == /\ Len(paths) < MAX_PATHS
                       /\ Len(components) <= MAX_DEPTH
          IN under
             => /\ \E i \in DOMAIN paths : paths[i] = result[1]
                /\ \A i \in DOMAIN paths : Len(paths[i]) >= Len(result[1])

\* the reference resolves to no component of the graph
NotFound(ref) ==
    LET r == Resolved(ref)
    IN r = None \/ r[1] \notin ComponentIds

\* the <<start, end>> references of the shortest-path query just answered by
\* an adapter that had its graph and its arguments; none otherwise
AnsweredPathQuery ==
    IF /\ pc = "responded"
       /\ op = "call_tool"
       /\ args[1] = "find_path"
       /\ call_tool_graph(args[2], graph_data) = None
       /\ {"start_component", "end_component"} \subseteq DOMAIN args[2]
    THEN Some(<< args[2].start_component, args[2].end_component >>)
    ELSE IF /\ pc = "responded"
            /\ op = "/find_shortest_path"
            /\ load_graph_safe(args[1].graph, graph_data) = None
    THEN Some(<< args[1].start_component, args[1].end_component >>)
    ELSE None

\* the reference of the neighbour query just answered; none otherwise
AnsweredNeighborQuery ==
    IF /\ pc = "responded"
       /\ op = "call_tool"
       /\ args[1] = "find_neighbors"
       /\ call_tool_graph(args[2], graph_data) = None
       /\ "component" \in DOMAIN args[2]
    THEN Some(args[2].component)
    ELSE IF /\ pc = "responded"
            /\ op = "/find_neighbors"
            /\ load_graph_safe(args[1].graph, graph_data) = None
    THEN Some(args[1].component)
    ELSE None

\* the handler returned an object with success false and a message
SuccessFalseWithMessage ==
    /\ result.raised = None
    /\ result.body[1].success = FALSE
    /\ result.body[1].message # None

(***************************************************************************)
(* C13.  In both adapters, a shortest-path query with an endpoint that     *)
(* resolves to no component of the graph, or with no path between its      *)
(* endpoints, and a neighbour query with a reference that resolves to no   *)
(* component, are answered by a returned object whose success is false and *)
(* that has a message: never with success true, never by an exception.     *)
(***************************************************************************)
C13_NotFoundIsSuccessFalse ==
    /\ AnsweredPathQuery # None
       => LET q == AnsweredPathQuery[1]
          IN (\/ NotFound(q[1])
              \/ NotFound(q[2])
              \/ ~Joined(Resolved(q[1])[1], Resolved(q[2])[1]))
             => SuccessFalseWithMessage
    /\ AnsweredNeighborQuery # None
       => (NotFound(AnsweredNeighborQuery[1]) => SuccessFalseWithMessage)

(***************************************************************************)
(* C14.  For the same graph and the same start and end references, the     *)
(* find_path tool of call_tool and the /find_path route report the same    *)
(* success flag and the same paths (the path of the tool being compared    *)
(* with the list of paths of the route; no path with the empty list).      *)
(***************************************************************************)
C14_FindPathSameInBothAdapters ==
    (/\ pc = "responded"
     /\ op = "call_tool"
     /\ args[1] = "find_path"
     /\ AnsweredPathQuery # None)
    => \A order \in IterationOrders(components) :
          LET q     == AnsweredPathQuery[1]
              route == find_path_response(
                           find_all_paths(q[1], q[2], graph_data, order), graph_data)
              tool  == result.body[1]
          IN /\ result.raised = None
             /\ route.success = tool.success
             /\ route.paths[1] = (IF tool.path = None THEN << >> ELSE << tool.path[1] >>)

(***************************************************************************)
(* C15.  find_path_bfs terminates on every graph, cyclic ones and ones     *)
(* where the end is unreachable included: the loop, once entered, is left  *)
(* with a return value; and each component id is enqueued at most once: a  *)
(* node joins the queue only when it is not in the visited set, it is in   *)
(* the set from then on, the set never loses an element during the search, *)
(* and no two entries of the queue are for one node.                       *)
(***************************************************************************)
C15_BfsTerminates ==
    /\ [](pc = "bfs"
            => /\ \A i \in DOMAIN queue : queue[i].node \in visited
               /\ \A i \in DOMAIN queue, j \in DOMAIN queue :
                      queue[i].node = queue[j].node => i = j)
    /\ [][(pc = "bfs" /\ pc' = "bfs")
            => /\ visited \subseteq visited'
               /\ \A i \in DOMAIN queue' :
                      queue'[i] \notin Range(queue)
                          => /\ queue'[i].node \notin visited
                             /\ queue'[i].node \in visited']_vars
    /\ (pc = "bfs") ~> (pc = "done")

\* the search ran from a start that is on a cycle (two of its neighbours
\* share a wire) towards an end it cannot reach, and returned None
C15_Witness ==
    /\ Returned("find_path_bfs")
    /\ result = None
    /\ adjacency # None
    /\ \E a \in OneWireAway(start_component[1]), b \in OneWireAway(start_component[1]) :
          a # b /\ SharesWire(a, b)
    /\ end_component[1] \notin WithinWires(start_component[1], Len(connections))

(***************************************************************************)
(* C16.  For an input that is no canonical id and whose normalized form is *)
(* the normalized instance name of some component, resolve_component_id    *)
(* returns the id of the first such component of the components list, also *)
(* when the alias table with the index, or the prefix, leads to another    *)
(* component.                                                              *)
(***************************************************************************)
C16_ExactMatchFirst ==
    (Returned("resolve_component_id") /\ ~IsCanonicalId(args[1]))
    => \A i \in DOMAIN components :
          (/\ _norm(components[i].instance_name) = _norm(args[1])
           /\ \A j \in 1..(i - 1) :
                  _norm(components[j].instance_name) # _norm(args[1]))
          => result = Some(components[i].id)

(***************************************************************************)
(* C17.  Every core query is read-only and stateless: no step of           *)
(* resolve_component_id, build_adjacency_graph, find_path_bfs,             *)
(* find_neighbors or get_component_name changes the components or the      *)
(* connections of the graph, and whenever a call is over nothing of it is  *)
(* left: the next call starts from the state the first call started from,  *)
(* so a repeated call has the same outcomes.                               *)
(***************************************************************************)
C17_QueriesReadOnly ==
    [][/\ components' = components
       /\ connections' = connections
       /\ pc' = "idle"
          => /\ op' = "none"
             /\ args' = << >>
             /\ result' = None
             /\ start_component' = None
             /\ end_component' = None
             /\ adjacency' = None
             /\ queue' = << >>
             /\ visited' = {}
             /\ current' = None
             /\ neighbors' = {}]_vars

\* a search that built the adjacency map, filled the queue and the visited
\* set and found a path over two wires has just returned
C17_Witness ==
    /\ Returned("find_path_bfs")
    /\ adjacency # None
    /\ DOMAIN adjacency[1] # {}
    /\ result # None
    /\ Len(result[1]) = 3
    /\ components = PathComponents

(***************************************************************************)
(* C18.  call_tool never raises: for every tool name and every arguments   *)
(* object, a missing graph, start_component, end_component or component    *)
(* and an unknown tool name included, it returns one object that has a     *)
(* boolean success field.                                                  *)
(***************************************************************************)
C18_CallToolNeverRaises ==
    (pc = "responded" /\ op = "call_tool")
    => /\ result.raised = None
       /\ result.body # None
       /\ result.body[1].success \in BOOLEAN

=============================================================================
